---- MODULE Spec2Model ----
(***************************************************************************)
(* Model of src/stock_dashboard_app.py: the StockValuationDashboard object  *)
(* (get_stock_data with its synthetic fallback _generate_demo_data,         *)
(* calculate_valuation_ratios, calculate_dcf_valuation) and the part of     *)
(* main that renders the results page: the metric cards, the BUY / HOLD /   *)
(* SELL recommendation, the charts, the summary table and the assumptions.   *)
(*                                                                          *)
(* Numbers.  Python floats are modelled as exact rationals [n, d] in lowest *)
(* terms with d > 0.  Money amounts (marketCap, freeCashflow, totalRevenue, *)
(* DCF values) are in units of 1e9 dollars; prices are in dollars; rates    *)
(* are fractions.  Python's None is the value None below; a key that is     *)
(* missing from the info dict is missing from the DOMAIN of info.           *)
(***************************************************************************)
EXTENDS Integers, Sequences, FiniteSets, TLC

VARIABLES
    stock_data,         \* self.stock_data: None or the six-key dict
    stock_src,          \* ghost: where each part of stock_data came from
    valuation_results,  \* self.valuation_results: ratios / dcf entries
    fetch_ret,          \* what get_stock_data returned to its caller
    fetch_req,          \* the arguments and provider behaviour of that call
    dcf_call,           \* arguments and return value of the last DCF call
    recommendation,     \* the recommendation box main rendered, if any
    page                \* how far main's rendering got, and what it showed

vars == <<stock_data, stock_src, valuation_results, fetch_ret, fetch_req,
          dcf_call, recommendation, page>>

----------------------------------------------------------------------------
(* Exact rational arithmetic standing for Python float arithmetic.          *)

Abs(x) == IF x < 0 THEN -x ELSE x

RECURSIVE GCD(_, _)
GCD(a, b) == IF b = 0 THEN a ELSE GCD(b, a % b)

\* The rational n/d (d # 0) in lowest terms with a positive denominator.
Rat(n, d) ==
    LET g == GCD(Abs(n), Abs(d))
        s == IF d < 0 THEN -1 ELSE 1
    IN  [tag |-> "num", n |-> s * (n \div g), d |-> s * (d \div g)]

Whole(n) == [tag |-> "num", n |-> n, d |-> 1]

\* Python's None, as a value a dict key can hold.
None == [tag |-> "None", n |-> 0, d |-> 1]

IsNum(v) == v.tag = "num"

\* A Python str.
Text(s) == [tag |-> "str", s |-> s]

RAdd(a, b) ==
    LET g == GCD(a.d, b.d)
    IN  Rat(a.n * (b.d \div g) + b.n * (a.d \div g), (a.d \div g) * b.d)

RNeg(a) == [tag |-> "num", n |-> -a.n, d |-> a.d]

RSub(a, b) == RAdd(a, RNeg(b))

RMul(a, b) ==
    LET g1 == GCD(Abs(a.n), b.d)
        g2 == GCD(Abs(b.n), a.d)
    IN  Rat((a.n \div g1) * (b.n \div g2), (a.d \div g2) * (b.d \div g1))

\* a / b for b # 0 (the callers test b = 0 first: ZeroDivisionError).
RDiv(a, b) == RMul(a, Rat(b.d, b.n))

RIsZero(a) == a.n = 0

RLt(a, b) == RSub(a, b).n < 0
RLe(a, b) == RSub(a, b).n <= 0
RGt(a, b) == RLt(b, a)

RECURSIVE RPow(_, _)
RPow(a, k) == IF k = 0 THEN Whole(1) ELSE RMul(a, RPow(a, k - 1))

----------------------------------------------------------------------------
(* Bounds of the model.                                                     *)

\* Longest requested date range, in days (end - start <= MaxDays).
MaxDays == 1

\* Largest forecast_years passed to calculate_dcf_valuation.
MaxYears == 3

----------------------------------------------------------------------------
(* Data.                                                                    *)

Tickers == {"AAPL", "XYZ"}

\* Calendar dates are day numbers; main guarantees start < end.
DateRanges == {r \in [start : {0}, end : 1..MaxDays] : r.start < r.end}

\* The provider keys that calculate_valuation_ratios reads, and the key of
\* the ratios dict each one is stored under.
RatioKeys == {"pe_ratio", "forward_pe", "price_to_sales", "price_to_book",
              "eps", "forward_eps", "profit_margin", "revenue_growth",
              "market_cap", "beta", "current_price", "dividend_yield"}

ProviderKey(k) ==
    CASE k = "pe_ratio"       -> "trailingPE"
      [] k = "forward_pe"     -> "forwardPE"
      [] k = "price_to_sales" -> "priceToSalesTrailing12Months"
      [] k = "price_to_book"  -> "priceToBook"
      [] k = "eps"            -> "trailingEps"
      [] k = "forward_eps"    -> "forwardEps"
      [] k = "profit_margin"  -> "profitMargins"
      [] k = "market_cap"     -> "marketCap"
      [] k = "beta"           -> "beta"
      [] k = "current_price"  -> "currentPrice"
      [] k = "dividend_yield" -> "dividendYield"

\* dict.get(key, default)
Get(info, key, default) == IF key \in DOMAIN info THEN info[key] ELSE default

\* The dict `info` without the keys in `ks`.
Without(info, ks) == [k \in DOMAIN info \ ks |-> info[k]]

\* pd.DataFrame(): an empty frame; a statement the provider returned.
EmptyFrame == <<>>
LiveFrame == <<"statement">>

----------------------------------------------------------------------------
(* _generate_demo_data: the synthetic generator.                            *)

\* random.uniform(lo, hi), sampled at the two ends of the interval.
Uniform(lo, hi) == {lo, hi}

\* pd.date_range(start=start, end=end, freq='D'): every day from start to
\* end, BOTH ends included; empty when end < start.
date_range(start, end) ==
    IF end < start THEN <<>> ELSE [i \in 1..(end - start + 1) |-> start + i - 1]

\* base_price after the first k iterations of the loop of lines 130-133.
RECURSIVE WalkPrice(_, _, _)
WalkPrice(base_price, volatility, k) ==
    IF k = 0 THEN base_price
    ELSE RMul(WalkPrice(base_price, volatility, k - 1),
              RAdd(Whole(1), volatility[k]))

\* The random draws one call of the generator makes over `n` dates: the
\* base price, one volatility per date, and the info fields (the info
\* fields are drawn together at the low ends or together at the high ends
\* of their intervals).
DemoDraws(n) ==
    [base_price : Uniform(Whole(100), Whole(200)),
     volatility : [1..n -> Uniform(Rat(-1, 50), Rat(1, 50))],
     end        : {"lo", "hi"}]

\* The generator runs, and draws, only when the provider raised.
DrawsOf(resp, n) ==
    IF resp.fail_at = 0 THEN {CHOOSE rnd \in DemoDraws(0) : TRUE}
    ELSE DemoDraws(n)

Draw(rnd, lo, hi) == IF rnd.end = "lo" THEN lo ELSE hi

DemoHistory(start, end, rnd) ==
    LET dates == date_range(start, end)
    IN  [i \in 1..Len(dates) |->
            [Date |-> dates[i],
             Close |-> WalkPrice(rnd.base_price, rnd.volatility, i)]]

DemoInfo(ticker, start, end, rnd) ==
    LET n == Len(date_range(start, end))
    IN  [currentPrice  |-> WalkPrice(rnd.base_price, rnd.volatility, n),
         marketCap     |-> Draw(rnd, Whole(100), Whole(2000)),
         trailingPE    |-> Draw(rnd, Whole(15), Whole(25)),
         forwardPE     |-> Draw(rnd, Whole(16), Whole(22)),
         priceToBook   |-> Draw(rnd, Whole(3), Whole(6)),
         trailingEps   |-> Draw(rnd, Whole(5), Whole(12)),
         forwardEps    |-> Draw(rnd, Whole(6), Whole(13)),
         beta          |-> Draw(rnd, Rat(9, 10), Rat(13, 10)),
         longName      |-> Text(ticker \o " Corporation"),
         freeCashflow  |-> Draw(rnd, Whole(5), Whole(20)),
         totalRevenue  |-> Draw(rnd, Whole(80), Whole(300)),
         profitMargins |-> Draw(rnd, Rat(15, 100), Rat(25, 100)),
         dividendYield |-> Draw(rnd, Rat(1, 100), Rat(3, 100))]

\* The dict assigned to self.stock_data at lines 156-163.
generate_demo_data(ticker, start, end, rnd) ==
    [ticker        |-> ticker,
     info          |-> DemoInfo(ticker, start, end, rnd),
     history       |-> DemoHistory(start, end, rnd),
     financials    |-> EmptyFrame,
     balance_sheet |-> EmptyFrame,
     cashflow      |-> EmptyFrame]

----------------------------------------------------------------------------
(* The data provider (yfinance), as get_stock_data sees it.                 *)

\* A provider record with every field present (amounts in 1e9 dollars).
FullInfo ==
    [currentPrice  |-> Whole(110),
     marketCap     |-> Whole(2400),
     trailingPE    |-> Whole(30),
     forwardPE     |-> Whole(28),
     priceToSalesTrailing12Months |-> Whole(7),
     priceToBook   |-> Whole(40),
     trailingEps   |-> Whole(6),
     forwardEps    |-> Whole(7),
     beta          |-> Rat(6, 5),
     longName      |-> Text("Live Inc."),
     freeCashflow  |-> Whole(10),
     totalRevenue  |-> Whole(100),
     profitMargins |-> Rat(1, 4),
     dividendYield |-> Rat(1, 200)]

\* Marks a key the provider leaves out of the record.
Missing == [tag |-> "missing", n |-> 0, d |-> 1]

\* FullInfo with the keys of `part` overridden; a key set to Missing is
\* left out of the record.
Override(part) ==
    LET merged == [k \in DOMAIN FullInfo |->
                      IF k \in DOMAIN part THEN part[k] ELSE FullInfo[k]]
    IN  Without(merged, {k \in DOMAIN merged : merged[k] = Missing})

CashParts ==
    [freeCashflow : {Missing, None, Whole(0), Whole(-5), Whole(10)},
     totalRevenue : {Missing, None, Whole(100)}]

PriceParts ==
    [marketCap    : {Missing, None, Whole(0), Whole(117), Whole(143), Whole(2400)},
     currentPrice : {Missing, None, Whole(0), Whole(110)}]

\* The records stock.info can return: every combination of the cash-flow
\* fields, every combination of the price fields, a record with only the
\* ratio fields missing or null, and the empty record of an unknown ticker.
ProviderInfos ==
    {Override(c) : c \in CashParts}
    \cup {Override(p) : p \in PriceParts}
    \cup {Without(FullInfo, {ProviderKey(k) : k \in RatioKeys \ {"revenue_growth"}}),
          [k \in DOMAIN FullInfo |-> None],
          Without(FullInfo, DOMAIN FullInfo)}

\* stock.history(start=start, end=end): one row per day from start up to
\* but excluding end.
LiveHistory(start, end) ==
    [i \in 1..(end - start) |-> [Date |-> start + i - 1, Close |-> Whole(150)]]

\* The steps of the try block, in the order they run (lines 95-103).
FetchSteps == <<"info", "history", "financials", "balance_sheet", "cashflow">>

\* What the provider does during one call: the step at which it raises
\* (0: it does not raise) and the values it returns.  When it raises, the
\* steps before the failing one return the full record and non-empty
\* frames.
ProviderResponses(start, end) ==
    [info    : ProviderInfos,
     history : {EmptyFrame, LiveHistory(start, end)},
     frame   : {EmptyFrame, LiveFrame},
     fail_at : {0}]
    \cup
    [info    : {FullInfo},
     history : {LiveHistory(start, end)},
     frame   : {LiveFrame},
     fail_at : 1..Len(FetchSteps)]

----------------------------------------------------------------------------
(* get_stock_data.                                                          *)

Parts == {"ticker", "info", "history", "financials", "balance_sheet", "cashflow"}

Tagged(src, dict) == [p \in DOMAIN dict |-> [src |-> src, val |-> dict[p]]]

Vals(tagged) == [p \in DOMAIN tagged |-> tagged[p].val]
Srcs(tagged) == [p \in DOMAIN tagged |-> tagged[p].src]

\* The dict built at lines 105-112 from the locals of a fetch that did not
\* raise.
LiveStockData(ticker, resp) ==
    [ticker        |-> ticker,
     info          |-> resp.info,
     history       |-> resp.history,
     financials    |-> resp.frame,
     balance_sheet |-> resp.frame,
     cashflow      |-> resp.frame]

\* The locals bound by the steps that ran before the provider raised.
Fetched(ticker, resp) ==
    LET live == LiveStockData(ticker, resp)
        done == {FetchSteps[i] : i \in 1..(resp.fail_at - 1)}
    IN  Tagged("live", [p \in done |-> live[p]])

\* A mutant of ExceptHandler: keeps what was fetched before the failure.
ExceptHandlerKeepsFetched(fetched, demo) ==
    [p \in Parts |-> IF p \in DOMAIN fetched THEN fetched[p]
                     ELSE [src |-> "synthetic", val |-> demo[p]]]

\* The except branch (lines 115-118): whatever was fetched is dropped and
\* self.stock_data becomes the generator's dict, whole.
ExceptHandler(fetched, demo) == Tagged("synthetic", demo)

\* A mutant of get_stock_data: the provider's failure reaches the caller.
get_stock_data_propagates(ticker, start, end, resp, rnd) ==
    IF resp.fail_at = 0
    THEN [ret |-> "True", stored |-> Tagged("live", LiveStockData(ticker, resp))]
    ELSE [ret |-> "raised", stored |-> None]

\* get_stock_data(ticker, start_date, end_date): the value returned and the
\* dict stored in self.stock_data, given what the provider does (resp) and
\* what the generator draws (rnd).
get_stock_data(ticker, start, end, resp, rnd) ==
    IF resp.fail_at = 0
    THEN [ret |-> "True", stored |-> Tagged("live", LiveStockData(ticker, resp))]
    ELSE [ret    |-> "True",
          stored |-> ExceptHandler(Fetched(ticker, resp),
                                   generate_demo_data(ticker, start, end, rnd))]

----------------------------------------------------------------------------
(* calculate_valuation_ratios.                                              *)

\* A mutant of calculate_valuation_ratios: a missing key is read as 0, as
\* info.get(key, 0) would.
calculate_valuation_ratios_zero_default(info, growth) ==
    [k \in RatioKeys |->
        IF k = "revenue_growth" THEN growth
        ELSE Get(info, ProviderKey(k), Whole(0))]

\* The ratios dict of lines 172-192: info.get(key) for eleven keys (None
\* when the key is missing) and a fresh random revenue_growth.
calculate_valuation_ratios(info, growth) ==
    [k \in RatioKeys |->
        IF k = "revenue_growth" THEN growth ELSE Get(info, ProviderKey(k), None)]

----------------------------------------------------------------------------
(* calculate_dcf_valuation.                                                 *)

\* The method's return value None, with the exception the except branch
\* (lines 265-267) caught.
Failed(e) == [ok |-> FALSE, error |-> e]

\* A mutant of FutureFcfs: the projection starts at the base itself, entry
\* i is the base grown over i - 1 years.
FutureFcfsFromBase(free_cash_flow, growth_rate, forecast_years) ==
    [year \in 1..forecast_years |->
        RMul(free_cash_flow, RPow(RAdd(Whole(1), growth_rate), year - 1))]

\* Lines 211-214: future_fcfs, one entry per year 1..forecast_years.
FutureFcfs(free_cash_flow, growth_rate, forecast_years) ==
    [year \in 1..forecast_years |->
        RMul(free_cash_flow, RPow(RAdd(Whole(1), growth_rate), year))]

\* Lines 220-221: sum of fcf / (1 + discount_rate) ** (i + 1) over the
\* first k entries.
RECURSIVE PresentValue(_, _, _)
PresentValue(future_fcfs, discount_rate, k) ==
    IF k = 0 THEN Whole(0)
    ELSE RAdd(PresentValue(future_fcfs, discount_rate, k - 1),
              RDiv(future_fcfs[k], RPow(RAdd(Whole(1), discount_rate), k)))

\* Lines 231-260, once the enterprise value is known.
PerShare(info, a, v) ==
    LET free_cash_flow         == v.free_cash_flow
        future_fcfs            == v.future_fcfs
        terminal_value         == v.terminal_value
        present_value_fcfs     == v.present_value_fcfs
        present_value_terminal == v.present_value_terminal
        enterprise_value == RAdd(present_value_fcfs, present_value_terminal)
        equity_value     == enterprise_value
        market_cap       == Get(info, "marketCap", Whole(1))
        price            == Get(info, "currentPrice", Whole(1))
    IN  IF ~IsNum(market_cap) \/ ~IsNum(price) THEN Failed("TypeError")
        ELSE IF RIsZero(price) THEN Failed("ZeroDivisionError")
        ELSE
        LET shares_outstanding == RDiv(market_cap, price)
        IN  IF RIsZero(shares_outstanding) THEN Failed("ZeroDivisionError")
            ELSE
            LET intrinsic_value_per_share == RDiv(equity_value, shares_outstanding)
                current_price == Get(info, "currentPrice", Whole(0))
                margin_of_safety ==
                    IF RGt(intrinsic_value_per_share, Whole(0))
                    THEN RMul(RDiv(RSub(intrinsic_value_per_share, current_price),
                                   intrinsic_value_per_share), Whole(100))
                    ELSE Whole(0)
            IN  [ok                     |-> TRUE,
                 intrinsic_value        |-> intrinsic_value_per_share,
                 current_price          |-> current_price,
                 margin_of_safety       |-> margin_of_safety,
                 free_cash_flow         |-> free_cash_flow,
                 enterprise_value       |-> enterprise_value,
                 equity_value           |-> equity_value,
                 future_fcfs            |-> future_fcfs,
                 terminal_value         |-> terminal_value,
                 present_value_fcfs     |-> present_value_fcfs,
                 present_value_terminal |-> present_value_terminal,
                 assumptions            |-> a]

\* Lines 210-229, once the base free cash flow is known.
Discounted(info, a, free_cash_flow) ==
    LET future_fcfs == FutureFcfs(free_cash_flow, a.growth_rate, a.forecast_years)
        spread      == RSub(a.discount_rate, a.terminal_growth)
        factor      == RAdd(Whole(1), a.discount_rate)
    IN  IF a.forecast_years < 1 THEN Failed("IndexError")
        ELSE IF RIsZero(spread) THEN Failed("ZeroDivisionError")
        ELSE IF RIsZero(factor) THEN Failed("ZeroDivisionError")
        ELSE
        LET terminal_value ==
                RDiv(RMul(future_fcfs[a.forecast_years],
                          RAdd(Whole(1), a.terminal_growth)), spread)
            present_value_fcfs ==
                PresentValue(future_fcfs, a.discount_rate, a.forecast_years)
            present_value_terminal ==
                RDiv(terminal_value, RPow(factor, a.forecast_years))
        IN  PerShare(info, a,
                     [free_cash_flow         |-> free_cash_flow,
                      future_fcfs            |-> future_fcfs,
                      terminal_value         |-> terminal_value,
                      present_value_fcfs     |-> present_value_fcfs,
                      present_value_terminal |-> present_value_terminal])

\* A mutant of BaseFcf: with no usable freeCashflow and no totalRevenue key
\* the base is the fixed 1e10 itself, not 1e10 * 0.2.
BaseFcfFixedFallback(info) ==
    LET free_cash_flow == Get(info, "freeCashflow", Whole(0))
    IN  IF ~IsNum(free_cash_flow) THEN Failed("TypeError")
        ELSE IF RLe(free_cash_flow, Whole(0))
        THEN IF "totalRevenue" \notin DOMAIN info
             THEN [ok |-> TRUE, value |-> Whole(10)]
             ELSE IF ~IsNum(info.totalRevenue) THEN Failed("TypeError")
             ELSE [ok |-> TRUE, value |-> RMul(info.totalRevenue, Rat(2, 10))]
        ELSE [ok |-> TRUE, value |-> free_cash_flow]

\* Lines 203-208: the base free cash flow, or the TypeError that comparing
\* or multiplying None raises.
BaseFcf(info) ==
    LET free_cash_flow == Get(info, "freeCashflow", Whole(0))
    IN  IF ~IsNum(free_cash_flow) THEN Failed("TypeError")
        ELSE IF RLe(free_cash_flow, Whole(0))
        THEN LET revenue == Get(info, "totalRevenue", Whole(10))
             IN  IF ~IsNum(revenue) THEN Failed("TypeError")
                 ELSE [ok |-> TRUE, value |-> RMul(revenue, Rat(2, 10))]
        ELSE [ok |-> TRUE, value |-> free_cash_flow]

\* calculate_dcf_valuation(growth_rate, discount_rate, terminal_growth,
\* forecast_years) on self.stock_data = data: the dict returned, or
\* Failed(e) for the None returned when the try block raised e.
calculate_dcf_valuation(data, a) ==
    IF data = None THEN Failed("TypeError")
    ELSE LET base == BaseFcf(data.info)
         IN  IF ~base.ok THEN base ELSE Discounted(data.info, a, base.value)

\* The arguments the model passes: growth 0% or 10%, discount 10%,
\* terminal growth 0%, 10% or 20%, forecast_years 0..MaxYears.
Assumptions ==
    [growth_rate     : {Whole(0), Rat(1, 10)},
     discount_rate   : {Rat(1, 10)},
     terminal_growth : {Whole(0), Rat(1, 10), Rat(2, 10)},
     forecast_years  : 0..MaxYears]

----------------------------------------------------------------------------
(* main: the results page (lines 387-642).                                  *)

\* Lines 421-426: the box shown for a margin of safety.
Recommend(margin_of_safety) ==
    IF RGt(margin_of_safety, Whole(10)) THEN "BUY"
    ELSE IF RGt(margin_of_safety, Whole(-10)) THEN "HOLD"
    ELSE "SELL"

\* A mutant of RecommendationBox: the margin defaults to 0 when dcf_result
\* is None, as it does for the gauge at line 519.
RecommendationBoxDefaulting(dcf_result) ==
    Recommend(IF dcf_result.ok THEN dcf_result.margin_of_safety ELSE Whole(0))

\* Lines 419-426: the recommendation box, or "none" when dcf_result is None.
RecommendationBox(dcf_result) ==
    IF dcf_result.ok THEN Recommend(dcf_result.margin_of_safety) ELSE "none"

\* Python's truth value of a ratio: None and 0 are false.
Truthy(v) == IsNum(v) /\ ~RIsZero(v)

\* Lines 396-416: the four metric cards.  `shown` is what was emitted,
\* `raised` the exception that ended the run of main, or "none".  Line 414
\* reads ratios.get('market_cap', 0): the key is always in ratios, so the
\* value is None when the snapshot has no market cap, and line 415 compares
\* it with 1e9.
MetricCards(ratios, dcf_result) ==
    LET market_cap == Get(ratios, "market_cap", Whole(0))
        first == {"Current Price"} \cup
                 (IF dcf_result.ok THEN {"DCF Value", "Margin of Safety"} ELSE {})
    IN  IF ~IsNum(market_cap) THEN [raised |-> "TypeError", shown |-> first]
        ELSE [raised |-> "none",
              shown  |-> first \cup
                         (IF RGt(market_cap, Whole(1)) THEN {"Market Cap"} ELSE {})]

\* Lines 597-626: the rows of the Financial Summary table.
SummaryRows(ratios, dcf_result) ==
    (IF dcf_result.ok
     THEN {"row DCF Intrinsic Value", "row Current Price", "row Margin of Safety"}
     ELSE {})
    \cup (IF Truthy(ratios.pe_ratio) THEN {"row P/E Ratio"} ELSE {})
    \cup (IF Truthy(ratios.forward_pe) THEN {"row Forward P/E"} ELSE {})
    \cup (IF Truthy(ratios.price_to_book) THEN {"row Price to Book"} ELSE {})
    \cup (IF Truthy(ratios.eps) THEN {"row EPS"} ELSE {})
    \cup (IF Truthy(ratios.profit_margin) THEN {"row Profit Margin"} ELSE {})
    \cup (IF Truthy(ratios.revenue_growth) THEN {"row Revenue Growth"} ELSE {})
    \cup (IF Truthy(ratios.beta) THEN {"row Beta"} ELSE {})
    \cup (IF Truthy(ratios.dividend_yield) THEN {"row Dividend Yield"} ELSE {})

\* Lines 428-642: the price chart or its warning, the cash flow projection,
\* the four gauges (each value defaulted with `or 0`), the summary table and
\* the assumptions panel.
Details(data, ratios, dcf_result) ==
    (IF Len(data.history) > 0 THEN {"Price History"} ELSE {"No price data"})
    \cup (IF dcf_result.ok THEN {"DCF Cash Flow Projection"} ELSE {})
    \cup {"Valuation Metrics"}
    \cup SummaryRows(ratios, dcf_result)
    \cup (IF dcf_result.ok THEN {"DCF Model Assumptions"} ELSE {})

\* Nothing of the page rendered yet.
BlankPage == [status |-> "none", shown |-> {}]

----------------------------------------------------------------------------
(* The state machine.                                                       *)

\* dict[key] = val
Put(dict, key, val) ==
    [k \in DOMAIN dict \cup {key} |-> IF k = key THEN val ELSE dict[k]]

\* {}
EmptyDict == [k \in {} |-> None]

\* StockValuationDashboard.__init__ (lines 84-86); nothing called yet.
Init ==
    /\ stock_data = None
    /\ stock_src = None
    /\ valuation_results = EmptyDict
    /\ fetch_ret = "NoCall"
    /\ fetch_req = None
    /\ dcf_call = None
    /\ recommendation = "none"
    /\ page = BlankPage

\* main, line 369: every run of main works on a fresh analyzer.
NewAnalyzer ==
    /\ fetch_ret # "NoCall" \/ dcf_call # None
    /\ stock_data' = None
    /\ stock_src' = None
    /\ valuation_results' = EmptyDict
    /\ fetch_ret' = "NoCall"
    /\ fetch_req' = None
    /\ dcf_call' = None
    /\ recommendation' = "none"
    /\ page' = BlankPage

\* analyzer.get_stock_data(ticker, start_date, end_date), line 372: called
\* once on a fresh analyzer, before anything is calculated.
GetStockData ==
    /\ fetch_ret = "NoCall"
    /\ dcf_call = None
    /\ \E ticker \in Tickers, range \in DateRanges :
       \E resp \in ProviderResponses(range.start, range.end) :
       \E rnd \in DrawsOf(resp, Len(date_range(range.start, range.end))) :
          LET out == get_stock_data(ticker, range.start, range.end, resp, rnd)
          IN  /\ fetch_ret' = out.ret
              /\ fetch_req' = [ticker |-> ticker, start |-> range.start,
                               end |-> range.end, fail_at |-> resp.fail_at]
              /\ stock_data' = IF out.stored = None THEN stock_data
                               ELSE Vals(out.stored)
              /\ stock_src' = IF out.stored = None THEN stock_src
                              ELSE Srcs(out.stored)
    /\ UNCHANGED <<valuation_results, dcf_call, recommendation, page>>

\* analyzer.calculate_valuation_ratios(), line 377.
CalculateValuationRatios ==
    /\ stock_data # None
    /\ \E growth \in Uniform(Rat(5, 100), Rat(15, 100)) :
          valuation_results' =
              Put(valuation_results, "ratios",
                  calculate_valuation_ratios(stock_data.info, growth))
    /\ UNCHANGED <<stock_data, stock_src, fetch_ret, fetch_req, dcf_call,
                   recommendation, page>>

\* analyzer.calculate_dcf_valuation(...), lines 380-385: called once on
\* each analyzer.
CalculateDcfValuation ==
    /\ dcf_call = None
    /\ \E a \in Assumptions :
          LET result == calculate_dcf_valuation(stock_data, a)
          IN  /\ dcf_call' = [args |-> a, ret |-> result]
              /\ valuation_results' =
                    IF result.ok THEN Put(valuation_results, "dcf", result)
                    ELSE valuation_results
    /\ UNCHANGED <<stock_data, stock_src, fetch_ret, fetch_req, recommendation,
                   page>>

\* main, lines 396-416: the metric cards, rendered once get_stock_data
\* returned a true value and the ratios and the DCF were calculated.  A
\* TypeError raised here ends the run: nothing below line 415 is rendered.
RenderMetricCards ==
    /\ fetch_ret = "True"
    /\ "ratios" \in DOMAIN valuation_results
    /\ dcf_call # None
    /\ page.status = "none"
    /\ LET cards == MetricCards(valuation_results.ratios, dcf_call.ret)
       IN  page' = [status |-> IF cards.raised = "none" THEN "cards" ELSE "raised",
                    shown  |-> cards.shown]
    /\ UNCHANGED <<stock_data, stock_src, valuation_results, fetch_ret,
                   fetch_req, dcf_call, recommendation>>

\* main, lines 419-426: the recommendation box, rendered after the metric
\* cards when dcf_result is not None.
ShowRecommendation ==
    /\ fetch_ret = "True"
    /\ dcf_call # None
    /\ page.status = "cards"
    /\ recommendation = "none"
    /\ recommendation' = RecommendationBox(dcf_call.ret)
    /\ page' = [status |-> "recommendation",
                shown  |-> page.shown \cup
                           (IF recommendation' # "none" THEN {"Recommendation"}
                            ELSE {})]
    /\ UNCHANGED <<stock_data, stock_src, valuation_results, fetch_ret,
                   fetch_req, dcf_call>>

\* main, lines 428-642: the charts, the gauges, the summary table and the
\* assumptions panel.
RenderDetails ==
    /\ page.status = "recommendation"
    /\ page' = [status |-> "done",
                shown  |-> page.shown \cup
                           Details(stock_data, valuation_results.ratios,
                                   dcf_call.ret)]
    /\ UNCHANGED <<stock_data, stock_src, valuation_results, fetch_ret,
                   fetch_req, dcf_call, recommendation>>

Next ==
    \/ NewAnalyzer
    \/ GetStockData
    \/ CalculateValuationRatios
    \/ CalculateDcfValuation
    \/ RenderMetricCards
    \/ ShowRecommendation
    \/ RenderDetails

Spec == Init /\ [][Next]_vars

----------------------------------------------------------------------------
(* Vocabulary of the properties.                                            *)

\* get_stock_data has returned, and it went through the except branch.
FellBack == fetch_req # None /\ fetch_req.fail_at # 0

\* get_stock_data has returned without the provider raising.
FetchedLive == fetch_req # None /\ fetch_req.fail_at = 0

\* calculate_dcf_valuation has been called on a loaded snapshot.
DcfCalled == dcf_call # None /\ stock_data # None

\* Key k of the snapshot is missing, null or zero.
AbsentOrZero(info, k) ==
    \/ k \notin DOMAIN info
    \/ info[k] = None
    \/ (IsNum(info[k]) /\ RIsZero(info[k]))

\* Key k of the snapshot holds a number.
Present(info, k) == k \in DOMAIN info /\ IsNum(info[k])

\* The assumptions and price fields let a DCF run to its end.
OtherwiseValid ==
    /\ RGt(dcf_call.args.discount_rate, dcf_call.args.terminal_growth)
    /\ dcf_call.args.forecast_years >= 1
    /\ ~AbsentOrZero(stock_data.info, "marketCap")
    /\ ~AbsentOrZero(stock_data.info, "currentPrice")

----------------------------------------------------------------------------
(* Properties.                                                              *)

\* C1: the recommendation shown for a margin of safety m is BUY exactly
\* when m > 10, HOLD exactly when -10 <= m <= 10 and SELL exactly when
\* m < -10.
C1_RecommendationBands ==
    recommendation # "none" =>
        LET m == dcf_call.ret.margin_of_safety
        IN  recommendation =
                IF RGt(m, Whole(10)) THEN "BUY"
                ELSE IF RLe(Whole(-10), m) THEN "HOLD"
                ELSE "SELL"

\* C2: a call with discount_rate <= terminal_growth ends in an error: it
\* returns no result and stores none in valuation_results['dcf'].
C2_NoResultWhenDiscountNotAboveTerminal ==
    (DcfCalled /\ RLe(dcf_call.args.discount_rate, dcf_call.args.terminal_growth))
        => (~dcf_call.ret.ok /\ "dcf" \notin DOMAIN valuation_results)

\* C3: an outcome that came from the synthetic fallback is marked as such:
\* its return value differs from a live fetch's, or stock_data or its info
\* carries a key that a live outcome does not have.
C3_SyntheticOutcomeFlagged ==
    FellBack =>
        \/ fetch_ret # "True"
        \/ ~(DOMAIN stock_data \subseteq Parts)
        \/ ~(DOMAIN stock_data.info \subseteq DOMAIN FullInfo)

\* C4: a call on a snapshot whose currentPrice or marketCap is missing,
\* null or zero ends in an error: no DCF result is returned.
C4_NoResultWithoutPriceOrMarketCap ==
    (DcfCalled /\ (\/ AbsentOrZero(stock_data.info, "currentPrice")
                   \/ AbsentOrZero(stock_data.info, "marketCap")))
        => ~dcf_call.ret.ok

\* The snapshot has neither a freeCashflow nor a totalRevenue key.
BothCashKeysMissing ==
    /\ "freeCashflow" \notin DOMAIN stock_data.info
    /\ "totalRevenue" \notin DOMAIN stock_data.info

C6_BaseFcfChain ==
    (DcfCalled /\ OtherwiseValid) =>
        LET info == stock_data.info
        IN  /\ (Present(info, "freeCashflow") /\ RGt(info.freeCashflow, Whole(0)))
                 => (dcf_call.ret.ok /\ dcf_call.ret.free_cash_flow = info.freeCashflow)
            /\ ((\/ "freeCashflow" \notin DOMAIN info
                 \/ info.freeCashflow = None
                 \/ RLe(info.freeCashflow, Whole(0)))
                /\ Present(info, "totalRevenue"))
                 => (/\ dcf_call.ret.ok
                     /\ dcf_call.ret.free_cash_flow =
                            RMul(info.totalRevenue, Rat(20, 100)))

\* C7: after a fallback to synthetic data, each of the twelve keys of the
\* ratios dict holds a value.
C7_SyntheticRatiosAllPresent ==
    (FellBack /\ "ratios" \in DOMAIN valuation_results)
        => \A k \in RatioKeys : valuation_results.ratios[k] # None

\* C8: the synthetic history has one point for each day d with
\* start <= d < end, in ascending order, each with a close price > 0.
C8_SyntheticHistoryHalfOpen ==
    FellBack =>
        LET h == stock_data.history
        IN  /\ Len(h) = fetch_req.end - fetch_req.start
            /\ \A i \in 1..Len(h) :
                  /\ h[i].Date = fetch_req.start + i - 1
                  /\ RGt(h[i].Close, Whole(0))

\* C9: stock_data is unset, or every part of it came from the provider, or
\* every part of it came from the generator.
C9_NeverMixed ==
    \/ (stock_data = None /\ stock_src = None)
    \/ /\ stock_data # None
       /\ DOMAIN stock_data = Parts
       /\ DOMAIN stock_src = Parts
       /\ \/ \A p \in Parts : stock_src[p] = "live"
          \/ \A p \in Parts : stock_src[p] = "synthetic"

\* The provider returned the info and the history and then raised; the
\* generator's dict is what is stored.
C9_Witness ==
    /\ FellBack
    /\ fetch_req.fail_at >= 3
    /\ \A p \in Parts : stock_src[p] = "synthetic"

\* C10: get_stock_data returns True with stock_data populated (a snapshot
\* and a price history, non-empty after a fallback), whether or not the
\* provider raised.
C10_FetchAlwaysSucceeds ==
    fetch_req # None =>
        /\ fetch_ret = "True"
        /\ stock_data # None
        /\ {"info", "history"} \subseteq DOMAIN stock_data
        /\ FellBack => Len(stock_data.history) > 0

C10_Witness ==
    /\ FellBack
    /\ fetch_ret = "True"
    /\ stock_data # None
    /\ fetch_req.ticker = "XYZ"

\* The snapshot lets lines 203-208 and 231-239 run without raising: the
\* cash fields consulted are numbers, and marketCap and currentPrice are
\* each either missing or a number other than zero.
DcfComputable(info) ==
    /\ "freeCashflow" \in DOMAIN info => IsNum(info.freeCashflow)
    /\ ("freeCashflow" \notin DOMAIN info \/ RLe(info.freeCashflow, Whole(0)))
          => ("totalRevenue" \in DOMAIN info => IsNum(info.totalRevenue))
    /\ \A k \in {"marketCap", "currentPrice"} :
          k \in DOMAIN info => (IsNum(info[k]) /\ ~RIsZero(info[k]))

\* The call had discount_rate > terminal_growth and forecast_years >= 1.
ValidAssumptions ==
    /\ RGt(dcf_call.args.discount_rate, dcf_call.args.terminal_growth)
    /\ dcf_call.args.forecast_years >= 1

\* future_fcfs has forecast_years entries, entry i is base * (1 + g)^i,
\* and every entry is > 0 when base > 0 and g >= 0.
ProjectionAsSpecified(ret, a) ==
    LET base == ret.free_cash_flow
    IN  /\ DOMAIN ret.future_fcfs = 1..a.forecast_years
        /\ \A i \in 1..a.forecast_years :
              ret.future_fcfs[i] =
                  RMul(base, RPow(RAdd(Whole(1), a.growth_rate), i))
        /\ (RGt(base, Whole(0)) /\ RLe(Whole(0), a.growth_rate))
              => \A i \in 1..a.forecast_years :
                    RGt(ret.future_fcfs[i], Whole(0))

CarriedThrough ==
    {<<"pe_ratio", "trailingPE">>, <<"forward_pe", "forwardPE">>,
     <<"price_to_sales", "priceToSalesTrailing12Months">>,
     <<"price_to_book", "priceToBook">>, <<"eps", "trailingEps">>,
     <<"forward_eps", "forwardEps">>, <<"profit_margin", "profitMargins">>,
     <<"market_cap", "marketCap">>, <<"beta", "beta">>,
     <<"current_price", "currentPrice">>,
     <<"dividend_yield", "dividendYield">>}

\* C13: on every loaded snapshot calculate_valuation_ratios can be called
\* and returns; the dict it stores has exactly the twelve keys, and every
\* key but revenue_growth holds the snapshot's value of its provider field,
\* or None when the snapshot has no such field.
C13_RatiosCarriedThrough ==
    /\ stock_data # None => ENABLED CalculateValuationRatios
    /\ "ratios" \in DOMAIN valuation_results =>
          LET ratios == valuation_results.ratios
              info   == stock_data.info
          IN  /\ DOMAIN ratios = {p[1] : p \in CarriedThrough} \cup {"revenue_growth"}
              /\ Cardinality(DOMAIN ratios) = 12
              /\ \A p \in CarriedThrough :
                    IF p[2] \in DOMAIN info THEN ratios[p[1]] = info[p[2]]
                    ELSE ratios[p[1]] = None

\* Ratios of a live snapshot that has a currentPrice but no marketCap key.
C13_Witness ==
    /\ FetchedLive
    /\ "ratios" \in DOMAIN valuation_results
    /\ "marketCap" \notin DOMAIN stock_data.info
    /\ "currentPrice" \in DOMAIN stock_data.info
    /\ valuation_results.ratios.market_cap = None
    /\ valuation_results.ratios.current_price = stock_data.info.currentPrice
    /\ IsNum(valuation_results.ratios.current_price)

\* The run of main is on a live snapshot in which a field is either
\* missing or holds a value: no key is present with a null.
LiveWithFieldsOnlyMissing ==
    /\ FetchedLive
    /\ \A k \in DOMAIN stock_data.info : stock_data.info[k] # None

\* C14: a run of main on a live snapshot, whichever of its fields are
\* missing, raises nowhere from the fetch to the summary table.
C14_AbsentFieldNeverRaises ==
    LiveWithFieldsOnlyMissing => page.status # "raised"

\* What main shows of a DCF result: the recommendation, the DCF value and
\* margin-of-safety cards, the projection chart, the summary rows for them
\* and the assumptions panel.
DcfPanels ==
    {"Recommendation", "DCF Value", "Margin of Safety",
     "DCF Cash Flow Projection", "row DCF Intrinsic Value",
     "row Margin of Safety", "DCF Model Assumptions"}

====
